---- MODULE Spec2Model ----
(***************************************************************************)
(* Model of one download session of src/main.py: _download_dash_audio      *)
(* parses the DASH manifest, selects the audio track, fetches the key and  *)
(* the init segment, fetches the media segments in batches under an        *)
(* asyncio.Semaphore, writes them to the temporary fMP4 file and hands it  *)
(* to ffmpeg.  asyncio runs one coroutine at a time, so every action is    *)
(* the code between two suspension points (await).                         *)
(***************************************************************************)
EXTENDS Integers, Sequences, FiniteSets, TLC

\* src/main.py:32 sets MAX_CONCURRENT = 15 and src/main.py:275 batch_size = 30.
\* The permit and batch discipline does not depend on the two numbers, only on
\* batch_size > MAX_CONCURRENT (a batch saturates the semaphore); the model
\* is explored at a scaled-down pair with the same relation.
MAX_CONCURRENT == 2

batch_size == 3

\* Largest number of segments a timeline of the explored manifests expands to
\* (more than one batch).
MaxSegs == 4

\* Segment duration d of the explored timeline entries.
SegDur == 2

\* for attempt in range(3)
MAX_ATTEMPTS == 3

\* Timelines handed to the timeline expansion on its own: at most MaxEntries
\* entries (d, r) with d in 0..MaxDur and r in -1..MaxRepeat.
MaxEntries == 2

MaxDur == 2

MaxRepeat == 2

\* Largest number of AdaptationSets of a Period handed to the track selection.
MaxAdapts == 3

\* An IV is 16 bytes (32 hex digits); AES works on blocks of 16 bytes.
BLOCK == 16

\* Largest number of cipher blocks of the byte sequences handed to _decrypt.
MaxBlocks == 2

----------------------------------------------------------------------------
\* Input manifests

\* Timelines: sequences of (d, r) entries of an S element.
Timelines ==
    {<<>>}
    \cup {<< <<SegDur, r>> >> : r \in 0..(MaxSegs - 1)}
    \cup {<< <<SegDur, 0>>, <<SegDur + 1, 0>> >>}

\* A string of n characters c, as the sequence of its characters.
Chars(c, n) == [i \in 1..n |-> c]

\* An encryption descriptor: ContentProtection/CryptoPeriod present or not,
\* its IV attribute present or not, and the text of the attribute.
Crypto(present, has_iv, iv_attr) ==
    [present |-> present, has_iv |-> has_iv, iv_attr |-> iv_attr]

\* A CryptoPeriod with IV="0x" followed by 32 hex digits, all c.
CryptoWithIV(c) == Crypto(TRUE, TRUE, <<"0", "x">> \o Chars(c, 2 * BLOCK))

\* An AdaptationSet: contentType, Label text ("audio" when there is no Label
\* element), whether SegmentTemplate/Representation/SegmentTimeline are all
\* there, the timeline entries, the Representation id, the descriptor.
AdaptSetAt(ct, label, complete, tl, rep_id, crypto) ==
    [contentType |-> ct, label |-> label, complete |-> complete, timeline |-> tl,
     rep_id |-> rep_id, crypto |-> crypto]

AdaptSet(ct, label, complete, tl) == AdaptSetAt(ct, label, complete, tl, ct, CryptoWithIV("a"))

\* The manifests a session is started on: text that is not XML, a document
\* without Period, documents without an audio AdaptationSet, an audio set
\* lacking SegmentTemplate/Representation/SegmentTimeline, and well-formed
\* documents with one video and one audio set over every timeline.
Manifests ==
    {[xml_ok |-> FALSE, has_period |-> FALSE, adapts |-> <<>>],
     [xml_ok |-> TRUE, has_period |-> FALSE, adapts |-> <<>>],
     [xml_ok |-> TRUE, has_period |-> TRUE, adapts |-> <<>>],
     [xml_ok |-> TRUE, has_period |-> TRUE,
      adapts |-> <<AdaptSet("video", "video", TRUE, <<>>)>>],
     [xml_ok |-> TRUE, has_period |-> TRUE,
      adapts |-> <<AdaptSet("audio", "audio", FALSE, <<>>)>>]}
    \cup {[xml_ok |-> TRUE, has_period |-> TRUE,
           adapts |-> <<AdaptSet("video", "video", TRUE, <<>>),
                        AdaptSet("audio", "OriginalAudio", TRUE, tl)>>] : tl \in Timelines}

----------------------------------------------------------------------------
\* Pure helpers

RECURSIVE RepeatAdvanceFirst(_, _, _, _)
\* Variant: the clock advances before the timestamp is appended.
RepeatAdvanceFirst(times, t, d, k) ==
    IF k <= 0 THEN [times |-> times, t |-> t]
    ELSE RepeatAdvanceFirst(Append(times, t + d), t + d, d, k - 1)

RECURSIVE Repeat(_, _, _, _)
\* for _ in range(r + 1): times.append(t); t += d
Repeat(times, t, d, k) ==
    IF k <= 0 THEN [times |-> times, t |-> t]
    ELSE Repeat(Append(times, t), t + d, d, k - 1)

RECURSIVE ExpandTimeline(_, _, _)
\* The S loop of _parse_adaptation_set: running clock t, entries in document order.
ExpandTimeline(tl, times, t) ==
    IF tl = <<>> THEN times
    ELSE LET d == Head(tl)[1]
             r == Head(tl)[2]
             step == Repeat(times, t, d, r + 1)
         IN ExpandTimeline(Tail(tl), step.times, step.t)

\* The hex digits and their values (position - 1).
HexDigits == <<"0", "1", "2", "3", "4", "5", "6", "7", "8", "9", "a", "b", "c", "d", "e", "f">>

HexDigitSet == {HexDigits[v] : v \in DOMAIN HexDigits}

IsHex(c) == c \in HexDigitSet

HexVal(c) == (CHOOSE v \in 1..16 : HexDigits[v] = c) - 1

RECURSIVE RemoveOx(_)
\* iv_hex.replace("0x", ""): every occurrence, scanning from the left.
RemoveOx(str) ==
    IF Len(str) < 2 THEN str
    ELSE IF str[1] = "0" /\ str[2] = "x" THEN RemoveOx(SubSeq(str, 3, Len(str)))
    ELSE <<str[1]>> \o RemoveOx(Tail(str))

\* bytes.fromhex: one byte per pair of hex digits; ValueError on an odd
\* number of digits or a character that is no hex digit.
FromHex(str) ==
    IF Len(str) % 2 # 0 \/ \E i \in 1..Len(str) : ~IsHex(str[i])
    THEN [raised |-> TRUE, bytes |-> <<>>]
    ELSE [raised |-> FALSE,
          bytes |-> [j \in 1..(Len(str) \div 2) |->
                        16 * HexVal(str[2 * j - 1]) + HexVal(str[2 * j])]]

\* crypto.get("IV", "0x00000000000000000000000000000000")
DefaultIVHex == <<"0", "x">> \o Chars("0", 2 * BLOCK)

\* Line 322: the IV text is the attribute, the default when the CryptoPeriod
\* has no IV attribute, and "" when there is no CryptoPeriod.
IVHex(crypto) ==
    IF crypto.present
    THEN (IF crypto.has_iv THEN crypto.iv_attr ELSE DefaultIVHex)
    ELSE <<>>

\* Lines 318-323: iv = bytes.fromhex(iv_hex.replace("0x", ""))
ResolveIV(crypto) == FromHex(RemoveOx(IVHex(crypto)))

\* _parse_adaptation_set: the track dict (only the fields the session reads);
\* rep_id stands for the URLs built from the Representation id.
ParseAdaptationSet(adapt) ==
    [is_none |-> FALSE,
     segment_times |-> ExpandTimeline(adapt.timeline, <<>>, 0),
     label |-> adapt.label,
     rep_id |-> adapt.rep_id,
     iv |-> ResolveIV(adapt.crypto).bytes]

\* audio_track = None
NoTrack == [is_none |-> TRUE, segment_times |-> <<>>, label |-> "None",
            rep_id |-> "None", iv |-> <<>>]

RECURSIVE SelectTrackFirstAudio(_, _)
\* Variant: the first audio set is kept whatever the labels.
SelectTrackFirstAudio(adapts, audio_track) ==
    IF adapts = <<>> THEN audio_track
    ELSE LET adapt == Head(adapts) IN
         IF adapt.contentType # "audio" THEN SelectTrackFirstAudio(Tail(adapts), audio_track)
         ELSE IF audio_track.is_none
              THEN SelectTrackFirstAudio(Tail(adapts), ParseAdaptationSet(adapt))
              ELSE SelectTrackFirstAudio(Tail(adapts), audio_track)

RECURSIVE SelectTrack(_, _)
\* The AdaptationSet loop: skip non-audio, keep the first audio set, let a
\* set labelled OriginalAudio replace the current one.
SelectTrack(adapts, audio_track) ==
    IF adapts = <<>> THEN audio_track
    ELSE LET adapt == Head(adapts) IN
         IF adapt.contentType # "audio" THEN SelectTrack(Tail(adapts), audio_track)
         ELSE IF audio_track.is_none \/ adapt.label = "OriginalAudio"
              THEN SelectTrack(Tail(adapts), ParseAdaptationSet(adapt))
              ELSE SelectTrack(Tail(adapts), audio_track)

\* ET.fromstring raises on text that is not XML, period.findall raises when
\* there is no Period, and _parse_adaptation_set raises (AttributeError on a
\* missing element) for an audio set without SegmentTemplate, Representation
\* or SegmentTimeline, or (ValueError) when the IV text is no hex string.
ParseRaises(m) ==
    \/ ~m.xml_ok
    \/ ~m.has_period
    \/ \E i \in 1..Len(m.adapts) :
          /\ m.adapts[i].contentType = "audio"
          /\ ~m.adapts[i].complete \/ ResolveIV(m.adapts[i].crypto).raised

Min(a, b) == IF a <= b THEN a ELSE b

Max(a, b) == IF a >= b THEN a ELSE b

\* Python slices, which clamp their bounds: s[-n:] and s[:-n] for n >= 1.
LastN(str, n) == SubSeq(str, Max(1, Len(str) - n + 1), Len(str))

DropLastN(str, n) == SubSeq(str, 1, Max(0, Len(str) - n))

\* Variant: the padding bytes are not compared, only the last byte is read.
UnpadLastByteOnly(res) ==
    IF res # <<>>
    THEN LET pad == res[Len(res)]
         IN IF 1 <= pad /\ pad <= BLOCK THEN DropLastN(res, pad) ELSE res
    ELSE res

\* Lines 356-361: the manual PKCS7 unpadding.
Unpad(res) ==
    IF res # <<>>
    THEN LET pad == res[Len(res)]
         IN IF /\ 1 <= pad /\ pad <= BLOCK
               /\ \A j \in 1..Len(LastN(res, pad)) : LastN(res, pad)[j] = pad
            THEN DropLastN(res, pad)
            ELSE res
    ELSE res

\* The key byte that meets position j of a block.
KeyByte(key, j) == key[((j - 1) % Len(key)) + 1]

\* Variant: the first block is chained to a zero IV instead of iv.
CbcDecryptZeroIV(data, key, iv) ==
    [j \in 1..Len(data) |->
        LET prev == IF j <= BLOCK THEN 0 ELSE data[j - BLOCK]
        IN (data[j] + 512 - KeyByte(key, ((j - 1) % BLOCK) + 1) - prev) % 256]

\* Line 355: dec.update(data) + dec.finalize() in CBC mode.  Each plaintext
\* block is the block decryption of its cipher block combined with the
\* previous cipher block (the IV for the first).  AES itself is replaced by
\* a keyed byte-wise permutation (subtract the key byte modulo 256) and XOR
\* by subtraction modulo 256; both are invertible, as the originals are.
CbcDecrypt(data, key, iv) ==
    [j \in 1..Len(data) |->
        LET prev == IF j <= BLOCK THEN iv[j] ELSE data[j - BLOCK]
        IN (data[j] + 512 - KeyByte(key, ((j - 1) % BLOCK) + 1) - prev) % 256]

\* algorithms.AES(key): the key sizes AES takes are 128, 192 and 256 bits.
KeyAccepted(key) == Len(key) \in {16, 24, 32}

\* _decrypt raises ValueError: on a key AES does not take, on an IV that is
\* not one block long (Cipher checks the mode against the algorithm), on
\* data that is not a whole number of blocks (finalize).
DecryptRaises(data, key, iv) ==
    \/ ~KeyAccepted(key)
    \/ Len(iv) # BLOCK
    \/ Len(data) % BLOCK # 0

\* _decrypt, when it does not raise.
Decrypt(data, key, iv) == Unpad(CbcDecrypt(data, key, iv))

\* Variant: the slice runs one position into the next batch.
BatchIndicesOverlap(bs, n) == (bs + 1)..Min(bs + batch_size + 1, n)

\* batch_times = segment_times[batch_start:batch_start + batch_size], as the
\* set of 1-based positions of the timeline it covers.
BatchIndices(bs, n) == (bs + 1)..Min(bs + batch_size, n)

\* Variant: the fetch does not wait for a permit.
CanAcquireAlways(s) == TRUE

\* async with sem: a permit is free.
CanAcquire(s) == s > 0

\* Variant: leaving the semaphore block does not give the permit back.
ReleaseLeaks(s) == s

\* End of "async with sem": the permit is given back.
Release(s) == s + 1

\* Variant: only the GET is inside the try.
CaughtTransportOnly(resp) == resp = "error"

\* Lines 262-266: client.get and _decrypt are both inside the try, so a
\* transport error and an error of _decrypt reach the same except clause.
Caught(resp) == resp \in {"error", "baddecrypt"}

\* Variant: one more pass of the retry loop.
LastAttemptLate(a) == a >= MAX_ATTEMPTS

\* The attempt just made was the last of range(3).
LastAttempt(a) == a >= MAX_ATTEMPTS - 1

\* Variant: the status of the key response is not looked at.
KeyFetchFailedOnError(resp) == resp = "error"

\* key_resp.status_code != 200 or the GET raised: return False.
KeyFetchFailed(resp) == resp # "ok"

\* A result of fetch_segment: None, or the decrypted bytes.
None == [none |-> TRUE, data |-> <<>>]

Some(bytes) == [none |-> FALSE, data |-> bytes]

\* _decrypt(r.content, key, iv) for the segment at start time t: its plaintext,
\* kept as one chunk tagged with the start time.
Plain(t) == <<[kind |-> "media", time |-> t]>>

\* The init segment's plaintext.
init_data == <<[kind |-> "init", time |-> 0]>>

\* Variant: a filler is written where the fetch returned None.
WrittenWithFiller(r) == IF r.none THEN <<[kind |-> "gap", time |-> 0]>> ELSE r.data

\* if data: f.write(data)   (None and b"" are both falsy)
Written(r) == IF ~r.none /\ r.data # <<>> THEN r.data ELSE <<>>

RECURSIVE WriteResultsDescending(_, _, _)
\* Variant: the batch is written from its last result to its first.
WriteResultsDescending(rs, lo, hi) ==
    IF lo > hi THEN <<>>
    ELSE Written(rs[hi]) \o WriteResultsDescending(rs, lo, hi - 1)

RECURSIVE WriteResults(_, _, _)
\* for data in results: the bytes the write loop appends for the batch
\* positions lo..hi, in the order of the gather result list.
WriteResults(rs, lo, hi) ==
    IF lo > hi THEN <<>>
    ELSE Written(rs[lo]) \o WriteResults(rs, lo + 1, hi)

----------------------------------------------------------------------------
\* State

VARIABLES
    manifest,      \* mpd_content, as parsed structure
    pc,            \* position of _download_dash_audio
    result,        \* "none" while running, "true"/"false" returned, "exception" raised
    audio_track,   \* the selected track
    keyResp,       \* outcome of the key GET ("none" before it)
    keyReqs,       \* number of key GETs issued
    initResp,      \* outcome of the init GET
    initReqs,      \* number of init GETs issued
    temp,          \* temp_fmp4: "absent", "open", "closed", "unlinked"
    out,           \* bytes written to temp_fmp4
    sem,           \* value of asyncio.Semaphore(MAX_CONCURRENT)
    batch_start,   \* loop variable of the batch loop
    st,            \* per segment position: state of its fetch_segment task
    attempt,       \* per segment position: loop variable of range(3)
    last,          \* per segment position: outcome of its latest GET
    reqs,          \* per segment position: number of GETs issued
    results,       \* per segment position: value returned by fetch_segment
    batched,       \* per segment position: number of gather calls that took it
    batchNo,       \* per segment position: ordinal of the gather call that took it
    nBatches,      \* number of gather calls made
    progress,      \* numerator of the last printed "done/n_segments" line
    outOfOrder,    \* a fetch returned while an earlier one of its batch had not
    captured,      \* download_audio: the responses captured from the page, in order
    cap_idx,       \* download_audio: number of captured candidates tried so far
    mpd_from,      \* download_audio: position of the candidate kept as mpd_content (0: none)
    call,          \* a pure function under check: its name, argument and return value
    loop,          \* main.py main: the URL list, the loop position, ok_count, the files
    conv,          \* convert_mp3.py main: the file list, the loop position, the files
    retry,         \* transcribe.py _transcribe_with_retry: attempt, calls made, sleeps
    split          \* transcribe.py _split_and_transcribe: parts, position, the files

vars == <<manifest, pc, result, audio_track, keyResp, keyReqs, initResp, initReqs,
          temp, out, sem, batch_start, st, attempt, last, reqs, results,
          batched, batchNo, nBatches, progress, outOfOrder,
          captured, cap_idx, mpd_from, call, loop, conv, retry, split>>

\* The state outside _download_dash_audio.
outerVars == <<captured, cap_idx, mpd_from, call, loop, conv, retry, split>>

\* The other programs and the loop of main while they do not run.
NoLoop == [pc |-> "none"]

NoConv == [pc |-> "none"]

NoRetry == [pc |-> "none"]

NoSplit == [pc |-> "none"]

ToolsIdle == conv = NoConv /\ retry = NoRetry /\ split = NoSplit

\* No pure function is being applied.
NoCall == [fn |-> "none"]

taskVars == <<st, attempt, last, reqs, results>>

n_segments == Len(audio_track.segment_times)

KeyOutcomes == {"ok", "non200", "error"}

\* "baddecrypt": status 200 with a body _decrypt raises on (length not a
\* multiple of the block size).
InitOutcomes == {"ok", "non200", "error", "baddecrypt"}

\* Outcomes of one segment GET: 200 with a body that decrypts, a non-200
\* status, a transport error, 200 with a body _decrypt raises on.
SegOutcomes == {"ok", "non200", "error", "baddecrypt"}

Init ==
    /\ manifest \in Manifests
    /\ pc = "parse"
    /\ result = "none"
    /\ audio_track = NoTrack
    /\ keyResp = "none"
    /\ keyReqs = 0
    /\ initResp = "none"
    /\ initReqs = 0
    /\ temp = "absent"
    /\ out = <<>>
    /\ sem = MAX_CONCURRENT
    /\ batch_start = 0
    /\ st = <<>>
    /\ attempt = <<>>
    /\ last = <<>>
    /\ reqs = <<>>
    /\ results = <<>>
    /\ batched = <<>>
    /\ batchNo = <<>>
    /\ nBatches = 0
    /\ progress = 0
    /\ outOfOrder = FALSE
    /\ captured = <<>>
    /\ cap_idx = 0
    /\ mpd_from = 0
    /\ call = NoCall
    /\ loop = NoLoop
    /\ ToolsIdle

----------------------------------------------------------------------------
\* Actions

\* Lines 201-220: parsing raises, or no audio track returns False.
ParseFail ==
    /\ pc = "parse"
    /\ \/ /\ ParseRaises(manifest)
          /\ pc' = "raised"
          /\ result' = "exception"
       \/ /\ ~ParseRaises(manifest)
          /\ SelectTrack(manifest.adapts, NoTrack).is_none
          /\ pc' = "done"
          /\ result' = "false"
    /\ UNCHANGED <<manifest, audio_track, keyResp, keyReqs, initResp, initReqs, temp, out,
                   sem, batch_start, taskVars, batched, batchNo, nBatches, progress, outOfOrder,
                   outerVars>>

\* Lines 201-234: parse, select the track, issue the key GET.
ParseOk ==
    /\ pc = "parse"
    /\ ~ParseRaises(manifest)
    /\ LET track == SelectTrack(manifest.adapts, NoTrack)
           n == Len(track.segment_times)
       IN /\ ~track.is_none
          /\ audio_track' = track
          /\ st' = [i \in 1..n |-> "new"]
          /\ attempt' = [i \in 1..n |-> 0]
          /\ last' = [i \in 1..n |-> "none"]
          /\ reqs' = [i \in 1..n |-> 0]
          /\ results' = [i \in 1..n |-> None]
          /\ batched' = [i \in 1..n |-> 0]
          /\ batchNo' = [i \in 1..n |-> 0]
    /\ keyReqs' = keyReqs + 1
    /\ pc' = "key"
    /\ UNCHANGED <<manifest, result, keyResp, initResp, initReqs, temp, out, sem,
                   batch_start, nBatches, progress, outOfOrder,
                   outerVars>>

\* Lines 234-247: the key GET resolves; on 200 the init GET is issued.
KeyResponse(resp) ==
    /\ pc = "key"
    /\ keyResp' = resp
    /\ IF KeyFetchFailed(resp)
       THEN /\ pc' = "done"
            /\ result' = "false"
            /\ UNCHANGED initReqs
       ELSE /\ pc' = "init"
            /\ initReqs' = initReqs + 1
            /\ UNCHANGED result
    /\ UNCHANGED <<manifest, audio_track, keyReqs, initResp, temp, out, sem, batch_start,
                   taskVars, batched, batchNo, nBatches, progress, outOfOrder,
                   outerVars>>

\* Lines 247-273: the init GET resolves.  Non-200 returns False; a transport
\* error of the GET and an error of _decrypt are not caught and propagate;
\* on success the temp file is opened and init_data written.
InitResponse(resp) ==
    /\ pc = "init"
    /\ initResp' = resp
    /\ CASE resp = "non200" ->
              /\ pc' = "done"
              /\ result' = "false"
              /\ UNCHANGED <<temp, out>>
         [] resp \in {"error", "baddecrypt"} ->
              /\ pc' = "raised"
              /\ result' = "exception"
              /\ UNCHANGED <<temp, out>>
         [] OTHER ->
              /\ pc' = "batch"
              /\ temp' = "open"
              /\ out' = init_data
              /\ UNCHANGED result
    /\ UNCHANGED <<manifest, audio_track, keyResp, keyReqs, initReqs, sem, batch_start,
                   taskVars, batched, batchNo, nBatches, progress, outOfOrder,
                   outerVars>>

\* Lines 276-278: the next batch is sliced and handed to asyncio.gather.
StartBatch ==
    /\ pc = "batch"
    /\ batch_start < n_segments
    /\ LET batch == BatchIndices(batch_start, n_segments)
       IN /\ st' = [i \in 1..n_segments |-> IF i \in batch THEN "waiting" ELSE st[i]]
          /\ batched' = [i \in 1..n_segments |->
                            IF i \in batch THEN batched[i] + 1 ELSE batched[i]]
          /\ batchNo' = [i \in 1..n_segments |->
                            IF i \in batch THEN nBatches + 1 ELSE batchNo[i]]
    /\ nBatches' = nBatches + 1
    /\ pc' = "gather"
    /\ UNCHANGED <<manifest, result, audio_track, keyResp, keyReqs, initResp, initReqs,
                   temp, out, sem, batch_start, attempt, last, reqs, results, progress, outOfOrder,
                   outerVars>>

\* Lines 260-263: a task enters the semaphore and issues its first GET.
Acquire(i) ==
    /\ pc = "gather"
    /\ st[i] = "waiting"
    /\ CanAcquire(sem)
    /\ sem' = sem - 1
    /\ st' = [st EXCEPT ![i] = "inflight"]
    /\ attempt' = [attempt EXCEPT ![i] = 0]
    /\ reqs' = [reqs EXCEPT ![i] = @ + 1]
    /\ UNCHANGED <<manifest, pc, result, audio_track, keyResp, keyReqs, initResp,
                   initReqs, temp, out, batch_start, last, results, batched, batchNo,
                   nBatches, progress, outOfOrder,
                   outerVars>>

\* Lines 263-269: a segment GET resolves.
\*   200 and _decrypt returns: return the plaintext, release the permit.
\*   non-200: the loop goes on to the next attempt at once (no sleep), or is
\*            exhausted and returns None.
\*   exception (transport error, or _decrypt raising on the 200 body):
\*            sleep 1 s if attempt < 2, else the loop is exhausted.
Respond(i, resp) ==
    /\ pc = "gather"
    /\ st[i] = "inflight"
    /\ last' = [last EXCEPT ![i] = resp]
    /\ CASE resp = "ok" ->
              /\ results' = [results EXCEPT ![i] = Some(Plain(audio_track.segment_times[i]))]
              /\ st' = [st EXCEPT ![i] = "done"]
              /\ sem' = Release(sem)
              /\ UNCHANGED <<attempt, reqs>>
         [] resp = "non200" /\ ~LastAttempt(attempt[i]) ->
              /\ attempt' = [attempt EXCEPT ![i] = @ + 1]
              /\ reqs' = [reqs EXCEPT ![i] = @ + 1]
              /\ UNCHANGED <<st, sem, results>>
         [] Caught(resp) /\ ~LastAttempt(attempt[i]) ->
              /\ st' = [st EXCEPT ![i] = "sleeping"]
              /\ UNCHANGED <<attempt, reqs, sem, results>>
         [] OTHER ->
              /\ results' = [results EXCEPT ![i] = None]
              /\ st' = [st EXCEPT ![i] = "done"]
              /\ sem' = Release(sem)
              /\ UNCHANGED <<attempt, reqs>>
    /\ outOfOrder' = (outOfOrder \/ (st'[i] = "done" /\ \E j \in BatchIndices(batch_start, n_segments) :
                                               j < i /\ st[j] # "done"))
    /\ UNCHANGED <<manifest, pc, result, audio_track, keyResp, keyReqs, initResp,
                   initReqs, temp, out, batch_start, batched, batchNo, nBatches, progress,
                   outerVars>>

\* Line 268 returns: asyncio.sleep(1) is over, the next attempt's GET is issued.
WakeUp(i) ==
    /\ pc = "gather"
    /\ st[i] = "sleeping"
    /\ st' = [st EXCEPT ![i] = "inflight"]
    /\ attempt' = [attempt EXCEPT ![i] = @ + 1]
    /\ reqs' = [reqs EXCEPT ![i] = @ + 1]
    /\ UNCHANGED <<manifest, pc, result, audio_track, keyResp, keyReqs, initResp,
                   initReqs, temp, out, sem, batch_start, last, results, batched,
                   batchNo, nBatches, progress, outOfOrder,
                   outerVars>>

\* Lines 278-285: gather returns when every task of the batch has returned;
\* the results are written in list order and the progress line printed.
JoinBatch ==
    /\ pc = "gather"
    /\ LET batch == BatchIndices(batch_start, n_segments)
       IN /\ \A i \in batch : st[i] = "done"
          /\ out' = out \o WriteResults(results, batch_start + 1,
                                        Min(batch_start + batch_size, n_segments))
    /\ progress' = Min(batch_start + batch_size, n_segments)
    /\ batch_start' = batch_start + batch_size
    /\ pc' = "batch"
    /\ UNCHANGED <<manifest, result, audio_track, keyResp, keyReqs, initResp, initReqs,
                   temp, sem, taskVars, batched, batchNo, nBatches, outOfOrder,
                   outerVars>>

\* Lines 276, 287-288: the batch loop is over, the file is closed and the
\* summary line "n_segments/n_segments" printed.
CloseFile ==
    /\ pc = "batch"
    /\ batch_start >= n_segments
    /\ temp' = "closed"
    /\ progress' = n_segments
    /\ pc' = "convert"
    /\ UNCHANGED <<manifest, result, audio_track, keyResp, keyReqs, initResp, initReqs,
                   out, sem, batch_start, taskVars, batched, batchNo, nBatches, outOfOrder,
                   outerVars>>

\* Lines 292-313: ffmpeg runs, the temp file is unlinked, the return code decides.
Convert(rc) ==
    /\ pc = "convert"
    /\ temp' = "unlinked"
    /\ result' = IF rc # 0 THEN "false" ELSE "true"
    /\ pc' = "done"
    /\ UNCHANGED <<manifest, audio_track, keyResp, keyReqs, initResp, initReqs, out, sem,
                   batch_start, taskVars, batched, batchNo, nBatches, progress, outOfOrder,
                   outerVars>>

Next ==
    \/ ParseFail
    \/ ParseOk
    \/ \E resp \in KeyOutcomes : KeyResponse(resp)
    \/ \E resp \in InitOutcomes : InitResponse(resp)
    \/ StartBatch
    \/ \E i \in DOMAIN st : Acquire(i)
    \/ \E i \in DOMAIN st, resp \in SegOutcomes : Respond(i, resp)
    \/ \E i \in DOMAIN st : WakeUp(i)
    \/ JoinBatch
    \/ CloseFile
    \/ \E rc \in {0, 1} : Convert(rc)

Spec == Init /\ [][Next]_vars

\* The steps of the segment phase: the event loop runs every task that can
\* run, every issued request returns a response or an error, every sleep ends.
SegmentStep ==
    \/ StartBatch
    \/ \E i \in DOMAIN st : Acquire(i)
    \/ \E i \in DOMAIN st, resp \in SegOutcomes : Respond(i, resp)
    \/ \E i \in DOMAIN st : WakeUp(i)
    \/ JoinBatch
    \/ CloseFile

\* The session under the assumption that the segment phase keeps moving
\* while it can; which answer a request gets is left open.
\* The sessions whose segment phase is followed to its end: no audio set
\* (no segment phase at all), an empty timeline, one segment, and one segment
\* more than a batch holds.
LiveTimelines == {<<>>, << <<SegDur, 0>> >>, << <<SegDur, batch_size>> >>}

InitLive ==
    /\ Init
    /\ \/ manifest.adapts = <<AdaptSet("video", "video", TRUE, <<>>)>>
       \/ \E tl \in LiveTimelines :
             manifest.adapts = <<AdaptSet("video", "video", TRUE, <<>>),
                                 AdaptSet("audio", "OriginalAudio", TRUE, tl)>>

SpecLive == InitLive /\ [][Next]_vars /\ WF_vars(SegmentStep)

----------------------------------------------------------------------------
\* The pure functions of the session, applied on their own to bounded inputs

\* The session variables while no session runs.
Idle ==
    /\ manifest = [xml_ok |-> FALSE, has_period |-> FALSE, adapts |-> <<>>]
    /\ pc = "idle"
    /\ result = "none"
    /\ audio_track = NoTrack
    /\ keyResp = "none"
    /\ keyReqs = 0
    /\ initResp = "none"
    /\ initReqs = 0
    /\ temp = "absent"
    /\ out = <<>>
    /\ sem = MAX_CONCURRENT
    /\ batch_start = 0
    /\ st = <<>>
    /\ attempt = <<>>
    /\ last = <<>>
    /\ reqs = <<>>
    /\ results = <<>>
    /\ batched = <<>>
    /\ batchNo = <<>>
    /\ nBatches = 0
    /\ progress = 0
    /\ outOfOrder = FALSE

sessionVars == <<manifest, pc, result, audio_track, keyResp, keyReqs, initResp, initReqs,
                 temp, out, sem, batch_start, st, attempt, last, reqs, results,
                 batched, batchNo, nBatches, progress, outOfOrder>>

\* A call not yet made, and the call once it returned or raised.
Pending(fn, arg) == [fn |-> fn, arg |-> arg, done |-> FALSE]

Returned(c, value) == [fn |-> c.fn, arg |-> c.arg, done |-> TRUE, raised |-> FALSE, ret |-> value]

Raised(c) == [fn |-> c.fn, arg |-> c.arg, done |-> TRUE, raised |-> TRUE, ret |-> <<>>]

\* The (d, r) pairs an S element can carry: int(d), int(r), no check on either.
TimelineEntries == (0..MaxDur) \X ((0 - 1)..MaxRepeat)

RECURSIVE SeqsUpTo(_, _)
\* The sequences over S of length at most n.
SeqsUpTo(S, n) ==
    IF n = 0 THEN {<<>>}
    ELSE LET shorter == SeqsUpTo(S, n - 1)
         IN shorter \cup {Append(q, x) : q \in shorter, x \in S}

TimelineArgs == SeqsUpTo(TimelineEntries, MaxEntries)

\* Lines 332-340 applied to a timeline: the loop has no failing path.
ApplyExpand ==
    /\ call.fn = "expand"
    /\ ~call.done
    /\ call' = Returned(call, ExpandTimeline(call.arg, <<>>, 0))
    /\ UNCHANGED <<sessionVars, captured, cap_idx, mpd_from, loop, conv, retry, split>>

\* The AdaptationSets of a Period, each with its position as Representation id.
AdaptKinds == {"audio", "video"} \X {"audio", "OriginalAudio", "Dubbed"}

SelectArgs ==
    {[i \in 1..Len(q) |-> AdaptSetAt(q[i][1], q[i][2], TRUE, <<>>, i, CryptoWithIV("a"))] :
        q \in SeqsUpTo(AdaptKinds, MaxAdapts)}

\* Lines 205-216 applied to the AdaptationSets of a Period.
ApplySelect ==
    /\ call.fn = "select"
    /\ ~call.done
    /\ call' = Returned(call, SelectTrack(call.arg, NoTrack))
    /\ UNCHANGED <<sessionVars, captured, cap_idx, mpd_from, loop, conv, retry, split>>

\* Byte values around the padding range 1..16.
PadBytes == {0, 1, 2, BLOCK - 1, BLOCK, BLOCK + 1, 255}

\* A byte sequence of n bytes: a's, then k trailing b's.
TwoRuns(n, a, b, k) == Chars(a, n - k) \o Chars(b, k)

\* What CBC decryption returns: whole blocks (finalize rejects anything else).
DecryptedSeqs ==
    {TwoRuns(nb * BLOCK, a, b, Min(k, nb * BLOCK)) :
        nb \in 0..MaxBlocks, a \in PadBytes, b \in PadBytes, k \in 0..BLOCK}

\* Lines 356-361 applied to a decrypted byte sequence.
ApplyUnpad ==
    /\ call.fn = "unpad"
    /\ ~call.done
    /\ call' = Returned(call, Unpad(call.arg))
    /\ UNCHANGED <<sessionVars, captured, cap_idx, mpd_from, loop, conv, retry, split>>

\* The fixed key and IV of the round trip, and keys of other lengths.
KeyOfLen(n) == [j \in 1..n |-> (7 * j + 3) % 256]

TestIV == [j \in 1..BLOCK |-> (250 + j) % 256]

\* PKCS7: 1..16 bytes are appended, each equal to their number.
Pkcs7Pad(plain) ==
    LET n == BLOCK - (Len(plain) % BLOCK) IN plain \o Chars(n, n)

\* CBC encryption under the stand-in block cipher: the inverse of CbcDecrypt.
RECURSIVE CbcEncrypt(_, _, _)
CbcEncrypt(plain, key, iv) ==
    IF plain = <<>> THEN <<>>
    ELSE LET head == CbcEncrypt(SubSeq(plain, 1, Len(plain) - 1), key, iv)
             j == Len(plain)
             prev == IF j <= BLOCK THEN iv[j] ELSE head[j - BLOCK]
         IN Append(head, (plain[j] + prev + KeyByte(key, ((j - 1) % BLOCK) + 1)) % 256)

\* Plaintexts: empty, one byte, one short of a block, whole blocks, one more,
\* ending in bytes that look like padding.
Plaintexts ==
    {TwoRuns(nb * BLOCK + o, a, b, Min(k, nb * BLOCK + o)) :
        nb \in 0..(MaxBlocks - 1), o \in {0, 1, BLOCK - 1},
        a \in PadBytes, b \in PadBytes, k \in {0, 1, 2, BLOCK}}

\* Calls of _decrypt: padded plaintexts encrypted under the 16-byte key,
\* one cipher block handed over with keys of other lengths, and a body that is not
\* a whole number of blocks or an IV that is not one block.
DecryptArgs ==
    {[plain |-> pt, data |-> CbcEncrypt(Pkcs7Pad(pt), KeyOfLen(BLOCK), TestIV),
      key |-> KeyOfLen(BLOCK), iv |-> TestIV] : pt \in Plaintexts}
    \cup {[plain |-> <<7>>, data |-> CbcEncrypt(Pkcs7Pad(<<7>>), KeyOfLen(BLOCK), TestIV),
           key |-> KeyOfLen(n), iv |-> TestIV] : n \in {0, 8, 15, 17, 24, 32}}
    \cup {[plain |-> <<7>>, data |-> <<1, 2, 3>>, key |-> KeyOfLen(BLOCK), iv |-> TestIV],
          [plain |-> <<7>>, data |-> Chars(0, BLOCK), key |-> KeyOfLen(BLOCK), iv |-> <<>>]}

\* Lines 351-361 applied to one call.
ApplyDecrypt ==
    /\ call.fn = "decrypt"
    /\ ~call.done
    /\ call' = IF DecryptRaises(call.arg.data, call.arg.key, call.arg.iv)
               THEN Raised(call)
               ELSE Returned(call, Decrypt(call.arg.data, call.arg.key, call.arg.iv))
    /\ UNCHANGED <<sessionVars, captured, cap_idx, mpd_from, loop, conv, retry, split>>

\* Encryption descriptors: no ContentProtection/CryptoPeriod, a CryptoPeriod
\* without IV attribute, and IV attributes of 32 hex digits with and without
\* the 0x prefix.
IVArgs ==
    {Crypto(FALSE, FALSE, <<>>), Crypto(TRUE, FALSE, <<>>)}
    \cup {Crypto(TRUE, TRUE, prefix \o Chars(a, BLOCK) \o Chars(b, BLOCK)) :
             prefix \in {<<>>, <<"0", "x">>}, a \in {"0", "9", "a", "f"}, b \in {"0", "9", "a", "f"}}

\* Lines 318-323 applied to one descriptor.
ApplyIV ==
    /\ call.fn = "iv"
    /\ ~call.done
    /\ call' = IF ResolveIV(call.arg).raised
               THEN Raised(call)
               ELSE Returned(call, ResolveIV(call.arg).bytes)
    /\ UNCHANGED <<sessionVars, captured, cap_idx, mpd_from, loop, conv, retry, split>>

InitFn ==
    /\ Idle
    /\ captured = <<>>
    /\ cap_idx = 0
    /\ mpd_from = 0
    /\ loop = NoLoop
    /\ ToolsIdle
    /\ \/ call \in {Pending("expand", tl) : tl \in TimelineArgs}
       \/ call \in {Pending("select", adapts) : adapts \in SelectArgs}
       \/ call \in {Pending("unpad", res) : res \in DecryptedSeqs}
       \/ call \in {Pending("decrypt", a) : a \in DecryptArgs}
       \/ call \in {Pending("iv", crypto) : crypto \in IVArgs}

NextFn ==
    \/ ApplyExpand
    \/ ApplySelect
    \/ ApplyUnpad
    \/ ApplyDecrypt
    \/ ApplyIV

SpecFn == InitFn /\ [][NextFn]_vars

----------------------------------------------------------------------------
\* download_audio from the captured candidates on: the manifest check, then
\* the session

MaxCaptured == 2

MARKER == <<"<", "M", "P", "D">>

MARKER_WINDOW == 500

\* text[:n]
Prefix(text, n) == SubSeq(text, 1, Min(n, Len(text)))

\* sub in text
Contains(sub, text) ==
    \E i \in 1..(Len(text) - Len(sub) + 1) : SubSeq(text, i, i + Len(sub) - 1) = sub

\* Variant: the marker is looked for in the whole text.
IsManifestAnywhere(text) == Contains(MARKER, text)

\* Line 179: "<MPD" in text[:500]
IsManifest(text) == Contains(MARKER, Prefix(text, MARKER_WINDOW))

\* Lines 175-181: the GET did not raise, its status is 200 and the text
\* passes the marker check.
Accepted(cand) == cand.outcome = "ok" /\ IsManifest(cand.text)

\* A response text: filler, then the marker or another opening tag.
Text(offset, has_marker) ==
    Chars(" ", offset) \o (IF has_marker THEN MARKER ELSE <<"<", "h", "t", "m", "l">>) \o <<">">>

\* What the parser makes of a text: a manifest with one audio set of one
\* segment, or text that is not XML.
GoodDoc ==
    [xml_ok |-> TRUE, has_period |-> TRUE,
     adapts |-> <<AdaptSet("audio", "audio", TRUE, << <<SegDur, 0>> >>)>>]

BadDoc == [xml_ok |-> FALSE, has_period |-> FALSE, adapts |-> <<>>]

\* The captured candidates: a GET that raises, a non-200 answer carrying a
\* manifest, a 200 answer without the marker, with the marker ending at the
\* window's edge, with the marker one character further, and with the marker
\* first in a truncated and in a whole document.
Candidates ==
    {[outcome |-> "error", text |-> <<>>, doc |-> BadDoc],
     [outcome |-> "non200", text |-> Text(0, TRUE), doc |-> GoodDoc],
     [outcome |-> "ok", text |-> Text(0, FALSE), doc |-> BadDoc],
     [outcome |-> "ok", text |-> Text(MARKER_WINDOW - Len(MARKER), TRUE), doc |-> GoodDoc],
     [outcome |-> "ok", text |-> Text(MARKER_WINDOW - Len(MARKER) + 1, TRUE), doc |-> GoodDoc],
     [outcome |-> "ok", text |-> Text(0, TRUE), doc |-> BadDoc],
     [outcome |-> "ok", text |-> Text(0, TRUE), doc |-> GoodDoc]}

InitCapture ==
    /\ captured \in SeqsUpTo(Candidates, MaxCaptured)
    /\ cap_idx = 0
    /\ mpd_from = 0
    /\ call = NoCall
    /\ loop = NoLoop
    /\ ToolsIdle
    /\ manifest = BadDoc
    /\ pc = "capture"
    /\ result = "none"
    /\ audio_track = NoTrack
    /\ keyResp = "none"
    /\ keyReqs = 0
    /\ initResp = "none"
    /\ initReqs = 0
    /\ temp = "absent"
    /\ out = <<>>
    /\ sem = MAX_CONCURRENT
    /\ batch_start = 0
    /\ st = <<>>
    /\ attempt = <<>>
    /\ last = <<>>
    /\ reqs = <<>>
    /\ results = <<>>
    /\ batched = <<>>
    /\ batchNo = <<>>
    /\ nBatches = 0
    /\ progress = 0
    /\ outOfOrder = FALSE

\* Lines 159-161: nothing was captured.
NothingCaptured ==
    /\ pc = "capture"
    /\ captured = <<>>
    /\ pc' = "done"
    /\ result' = "false"
    /\ UNCHANGED <<manifest, audio_track, keyResp, keyReqs, initResp, initReqs, temp, out,
                   sem, batch_start, taskVars, batched, batchNo, nBatches, progress, outOfOrder,
                   outerVars>>

\* Lines 173-184: the next candidate is fetched and checked; the first
\* accepted one ends the loop and goes to the parser (line 191).
TryCandidate ==
    /\ pc = "capture"
    /\ cap_idx < Len(captured)
    /\ cap_idx' = cap_idx + 1
    /\ IF Accepted(captured[cap_idx + 1])
       THEN /\ mpd_from' = cap_idx + 1
            /\ manifest' = captured[cap_idx + 1].doc
            /\ pc' = "parse"
       ELSE UNCHANGED <<mpd_from, manifest, pc>>
    /\ UNCHANGED <<result, audio_track, keyResp, keyReqs, initResp, initReqs, temp, out,
                   sem, batch_start, taskVars, batched, batchNo, nBatches, progress, outOfOrder,
                   captured, call, loop, conv, retry, split>>

\* Lines 186-188: the loop ended without a manifest.
NoManifestFound ==
    /\ pc = "capture"
    /\ captured # <<>>
    /\ cap_idx = Len(captured)
    /\ pc' = "done"
    /\ result' = "false"
    /\ UNCHANGED <<manifest, audio_track, keyResp, keyReqs, initResp, initReqs, temp, out,
                   sem, batch_start, taskVars, batched, batchNo, nBatches, progress, outOfOrder,
                   outerVars>>

NextCapture ==
    \/ NothingCaptured
    \/ TryCandidate
    \/ NoManifestFound
    \/ Next

SpecCapture == InitCapture /\ [][NextCapture]_vars

----------------------------------------------------------------------------
\* main: the loop over the URL list, one download_audio session at a time

MaxUrls == 2

\* "x" is a URL no file path can be extracted from.
Urls == {"a", "b", "x"}

HasFilePath(url) == url # "x"

SIZE_THRESHOLD == 10000

\* Sizes a destination file can have: none, one below and one above the limit.
FileSizes == {0, SIZE_THRESHOLD, SIZE_THRESHOLD + 1}

\* Variant: the limit is one byte higher.
AlreadyDownloadedAboveNext(size) == size > SIZE_THRESHOLD + 1

\* Line 109: dest.exists() and dest.stat().st_size > 10_000 (size 0: no file)
AlreadyDownloaded(size) == size > SIZE_THRESHOLD

\* What the page of a URL makes the listener capture: nothing, a response
\* that is no manifest, a manifest of one segment, a text with the marker
\* that is no XML.
CapturedLists ==
    {<<>>,
     <<[outcome |-> "ok", text |-> Text(0, FALSE), doc |-> BadDoc]>>,
     <<[outcome |-> "ok", text |-> Text(0, TRUE), doc |-> GoodDoc]>>,
     <<[outcome |-> "ok", text |-> Text(0, TRUE), doc |-> BadDoc]>>}

InitMain ==
    /\ Idle
    /\ captured = <<>>
    /\ cap_idx = 0
    /\ mpd_from = 0
    /\ call = NoCall
    /\ ToolsIdle
    /\ \E urls \in SeqsUpTo(Urls, MaxUrls), size_a \in FileSizes :
          loop = [pc |-> "loop", urls |-> urls, i |-> 0, ok_count |-> 0,
                  attempted |-> <<>>,   \* the URLs download_audio was called on
                  returned |-> <<>>,    \* the values those calls returned
                  listeners |-> 0,      \* number of page.on("response") calls
                  dest |-> [u \in {"a", "b"} |-> IF u = "a" THEN size_a ELSE 0],
                  fetches |-> [u \in {"a", "b"} |-> 0]]

\* Lines 68-69 and 88-103: download_audio is called on the next URL and
\* returns False at once when no file path is found.
NoFilePath ==
    /\ loop.pc = "loop"
    /\ loop.i < Len(loop.urls)
    /\ ~HasFilePath(loop.urls[loop.i + 1])
    /\ loop' = [loop EXCEPT !.i = @ + 1, !.attempted = Append(@, loop.urls[loop.i + 1]),
                            !.returned = Append(@, FALSE)]
    /\ UNCHANGED <<sessionVars, captured, cap_idx, mpd_from, call, conv, retry, split>>

\* Lines 68-71 and 105-111: the destination is there and large enough, the
\* call returns True at once and main counts it.
SkipDownloaded ==
    /\ loop.pc = "loop"
    /\ loop.i < Len(loop.urls)
    /\ LET url == loop.urls[loop.i + 1]
       IN /\ HasFilePath(url)
          /\ AlreadyDownloaded(loop.dest[url])
          /\ loop' = [loop EXCEPT !.i = @ + 1, !.attempted = Append(@, url),
                                  !.returned = Append(@, TRUE), !.ok_count = @ + 1]
    /\ UNCHANGED <<sessionVars, captured, cap_idx, mpd_from, call, conv, retry, split>>

\* Lines 113-157: the listener is registered, the page played, the captured
\* responses collected; the session state is that of a new call.
BeginDownload ==
    /\ loop.pc = "loop"
    /\ loop.i < Len(loop.urls)
    /\ LET url == loop.urls[loop.i + 1]
       IN /\ HasFilePath(url)
          /\ ~AlreadyDownloaded(loop.dest[url])
          /\ loop' = [loop EXCEPT !.pc = "session", !.attempted = Append(@, url),
                                  !.listeners = @ + 1]
    /\ captured' \in CapturedLists
    /\ cap_idx' = 0
    /\ mpd_from' = 0
    /\ manifest' = BadDoc
    /\ pc' = "capture"
    /\ result' = "none"
    /\ audio_track' = NoTrack
    /\ keyResp' = "none"
    /\ keyReqs' = 0
    /\ initResp' = "none"
    /\ initReqs' = 0
    /\ temp' = "absent"
    /\ out' = <<>>
    /\ sem' = MAX_CONCURRENT
    /\ batch_start' = 0
    /\ st' = <<>>
    /\ attempt' = <<>>
    /\ last' = <<>>
    /\ reqs' = <<>>
    /\ results' = <<>>
    /\ batched' = <<>>
    /\ batchNo' = <<>>
    /\ nBatches' = 0
    /\ progress' = 0
    /\ outOfOrder' = FALSE
    /\ UNCHANGED <<call, conv, retry, split>>

\* Some request of the session was issued.
SessionFetched == keyReqs > 0 \/ initReqs > 0 \/ \E i \in DOMAIN reqs : reqs[i] > 0

\* Lines 69-71: download_audio returned, main counts a success and goes to
\* the next URL. ffmpeg wrote the destination (line 293-303); a failed ffmpeg
\* run leaves nothing, or a file of any size.
DownloadReturns ==
    /\ loop.pc = "session"
    /\ pc = "done"
    /\ LET url == loop.urls[loop.i + 1]
       IN \E size \in FileSizes :
             /\ result = "true" => size > 0
             /\ temp # "unlinked" => size = loop.dest[url]
             /\ loop' = [loop EXCEPT !.pc = "loop", !.i = @ + 1,
                                     !.returned = Append(@, result = "true"),
                                     !.ok_count = IF result = "true" THEN @ + 1 ELSE @,
                                     !.dest[url] = size,
                                     !.fetches[url] = IF SessionFetched THEN @ + 1 ELSE @]
    /\ UNCHANGED <<sessionVars, captured, cap_idx, mpd_from, call, conv, retry, split>>

\* Line 69: download_audio raised; nothing in main catches, the exception
\* leaves the loop and main.
DownloadRaises ==
    /\ loop.pc = "session"
    /\ pc = "raised"
    /\ loop' = [loop EXCEPT !.pc = "crashed",
                            !.fetches[loop.urls[loop.i + 1]] = IF SessionFetched THEN @ + 1 ELSE @]
    /\ UNCHANGED <<sessionVars, captured, cap_idx, mpd_from, call, conv, retry, split>>

\* Lines 74-78: the list is exhausted, the summary is printed.
Summary ==
    /\ loop.pc = "loop"
    /\ loop.i = Len(loop.urls)
    /\ loop' = [loop EXCEPT !.pc = "finished"]
    /\ UNCHANGED <<sessionVars, captured, cap_idx, mpd_from, call, conv, retry, split>>

NextMain ==
    \/ NoFilePath
    \/ SkipDownloaded
    \/ BeginDownload
    \/ DownloadReturns
    \/ DownloadRaises
    \/ Summary
    \/ NextCapture

SpecMain == InitMain /\ [][NextMain]_vars

----------------------------------------------------------------------------
\* convert_mp3.py: main and convert_flac_to_mp3

MaxFiles == 2

\* An MP3 in downloads/mp3: no file, a file of size 0, a file with content.
Mp3States == {"absent", "empty", "full"}

\* Line 36: mp3_path.exists() and mp3_path.stat().st_size > 0
AlreadyConverted(mp3) == mp3 = "full"

\* What a failing ffmpeg can leave at mp3_path.
Leftovers == {"absent", "empty", "partial"}

\* Line 56: mp3_path.unlink(missing_ok=True)
UnlinkMissingOk(file) == "absent"

\* Variant: the FLAC is deleted whenever --delete was given.
DeleteFlacAlways(success, delete_flac) == delete_flac

\* Lines 94-97: if success: ...; if delete_flac: flac_file.unlink()
DeleteFlac(success, delete_flac) == success /\ delete_flac

\* Lines 66-90: the sorted list of FLAC files (positions 1..n), the MP3s
\* already there, the --delete flag.
InitConvert ==
    /\ Idle
    /\ captured = <<>>
    /\ cap_idx = 0
    /\ mpd_from = 0
    /\ call = NoCall
    /\ loop = NoLoop
    /\ retry = NoRetry
    /\ split = NoSplit
    /\ \E n \in 0..MaxFiles, delete_flac \in BOOLEAN :
          \E mp3 \in [1..n -> Mp3States] :
             conv = [pc |-> "loop", n |-> n, delete_flac |-> delete_flac, i |-> 0,
                     ok_count |-> 0,
                     flac |-> [f \in 1..n |-> TRUE],    \* the FLAC exists
                     mp3 |-> mp3,                        \* the MP3 of each FLAC
                     mp3_before |-> mp3,                 \* the MP3s at the start
                     runs |-> [f \in 1..n |-> 0],        \* ffmpeg runs per file
                     success |-> <<>>]                   \* values convert_flac_to_mp3 returned

\* Lines 91-98 with 36-38: the MP3 is there, nothing is run.
SkipConverted ==
    /\ conv.pc = "loop"
    /\ conv.i < conv.n
    /\ LET f == conv.i + 1
       IN /\ AlreadyConverted(conv.mp3[f])
          /\ conv' = [conv EXCEPT !.i = f, !.ok_count = @ + 1,
                                  !.success = Append(@, TRUE),
                                  !.flac[f] = ~DeleteFlac(TRUE, conv.delete_flac)]
    /\ UNCHANGED <<sessionVars, captured, cap_idx, mpd_from, call, loop, retry, split>>

\* Lines 91-98 with 40-62: ffmpeg runs on the file; rc = 0 leaves the MP3,
\* another rc leaves anything, which is unlinked.
ConvertFile(rc, left) ==
    /\ conv.pc = "loop"
    /\ conv.i < conv.n
    /\ LET f == conv.i + 1
       IN /\ ~AlreadyConverted(conv.mp3[f])
          /\ conv' = [conv EXCEPT !.i = f,
                                  !.runs[f] = @ + 1,
                                  !.mp3[f] = IF rc = 0 THEN "full" ELSE UnlinkMissingOk(left),
                                  !.ok_count = IF rc = 0 THEN @ + 1 ELSE @,
                                  !.success = Append(@, rc = 0),
                                  !.flac[f] = ~DeleteFlac(rc = 0, conv.delete_flac)]
    /\ UNCHANGED <<sessionVars, captured, cap_idx, mpd_from, call, loop, retry, split>>

\* Lines 84-86 and 100-103: no file, or the list is exhausted.
ConvertDone ==
    /\ conv.pc = "loop"
    /\ conv.i = conv.n
    /\ conv' = [conv EXCEPT !.pc = "finished"]
    /\ UNCHANGED <<sessionVars, captured, cap_idx, mpd_from, call, loop, retry, split>>

NextConvert ==
    \/ SkipConverted
    \/ \E rc \in {0, 1}, left \in Leftovers : ConvertFile(rc, left)
    \/ ConvertDone

SpecConvert == InitConvert /\ [][NextConvert]_vars

----------------------------------------------------------------------------
\* transcribe.py: _transcribe_with_retry and _is_retryable_error

MAX_PART_RETRIES == 3

RETRY_BASE_DELAY == 2

\* Line 138: the words looked for in the exception's type name and message.
Indicators == {"connection", "timeout", "remotedisconnected", "connectionreset"}

\* Line 144
RetryableStatuses == {500, 502, 503}

\* An exception: the words its type name and message hold, whether it has an
\* integer status_code and which, its __cause__ (a sequence of at most one).
Exc(words, has_status, status, cause) ==
    [words |-> words, has_status |-> has_status, status |-> status, cause |-> cause]

RECURSIVE IsRetryable(_)
\* _is_retryable_error
IsRetryable(exc) ==
    \/ exc.words \cap Indicators # {}
    \/ exc.has_status /\ exc.status \in RetryableStatuses
    \/ exc.cause # <<>> /\ IsRetryable(exc.cause[1])

\* The exceptions the API call raises: a connection error, a timeout, status
\* 500 and 503, status 429 and 400, an error without status, and errors
\* wrapping a connection error and a status-400 error.
Exceptions ==
    LET plain == {Exc({"connection"}, FALSE, 0, <<>>),
                  Exc({"timeout"}, FALSE, 0, <<>>),
                  Exc({}, TRUE, 500, <<>>),
                  Exc({}, TRUE, 503, <<>>),
                  Exc({"ratelimit"}, TRUE, 429, <<>>),
                  Exc({"badrequest"}, TRUE, 400, <<>>),
                  Exc({"permission"}, FALSE, 0, <<>>)}
    IN plain \cup {Exc({"api"}, FALSE, 0, <<Exc({"connection"}, FALSE, 0, <<>>)>>),
                   Exc({"api"}, FALSE, 0, <<Exc({"badrequest"}, TRUE, 400, <<>>)>>)}

\* What one call of _transcribe_single does: it returns segments or raises.
ApiOutcomes ==
    {[ok |-> TRUE, segments |-> t] : t \in {"text1", "text2"}}
    \cup {[ok |-> FALSE, exc |-> e] : e \in Exceptions}

\* Variant: the delay doubles from the first failure on.
BackoffDelayDoubled(a) == RETRY_BASE_DELAY * (2 ^ a)

\* Line 183: delay = RETRY_BASE_DELAY * (2 ** (attempt - 1))
BackoffDelay(a) == RETRY_BASE_DELAY * (2 ^ (a - 1))

InitRetry ==
    /\ Idle
    /\ captured = <<>>
    /\ cap_idx = 0
    /\ mpd_from = 0
    /\ call = NoCall
    /\ loop = NoLoop
    /\ conv = NoConv
    /\ split = NoSplit
    /\ retry = [pc |-> "call",
                attempt |-> 1,       \* loop variable of range(1, MAX_PART_RETRIES + 1)
                outcomes |-> <<>>,   \* what each call of _transcribe_single did
                sleeps |-> <<>>,     \* the arguments of time.sleep, in order
                ret |-> "none"]      \* the value returned to the caller

\* Lines 179-187: one pass of the loop: the call returns, or raises and the
\* handler sleeps or re-raises.
Transcribe(outcome) ==
    /\ retry.pc = "call"
    /\ retry' = [retry EXCEPT
                   !.outcomes = Append(@, outcome),
                   !.ret = IF outcome.ok THEN outcome.segments ELSE @,
                   !.pc = IF outcome.ok THEN "returned"
                          ELSE IF retry.attempt < MAX_PART_RETRIES /\ IsRetryable(outcome.exc)
                               THEN "sleep"
                               ELSE "raised",
                   !.sleeps = IF ~outcome.ok /\ retry.attempt < MAX_PART_RETRIES
                                 /\ IsRetryable(outcome.exc)
                              THEN Append(@, BackoffDelay(retry.attempt))
                              ELSE @]
    /\ UNCHANGED <<sessionVars, captured, cap_idx, mpd_from, call, loop, conv, split>>

\* Lines 185, 178: time.sleep returns, the loop takes the next attempt.
SleepOver ==
    /\ retry.pc = "sleep"
    /\ retry' = [retry EXCEPT !.pc = "call", !.attempt = @ + 1]
    /\ UNCHANGED <<sessionVars, captured, cap_idx, mpd_from, call, loop, conv, split>>

NextRetry ==
    \/ \E outcome \in ApiOutcomes : Transcribe(outcome)
    \/ SleepOver

SpecRetry == InitRetry /\ [][NextRetry]_vars

----------------------------------------------------------------------------
\* transcribe.py: _split_and_transcribe and split_audio

MaxParts == 4

\* Files are numbered: the input file, then the part file named after
\* len(parts) + 1.
InputFile == 0

\* What one ffmpeg run of the split loop does: it writes the part, exits 0
\* with a part of size 0 or with no file, or exits non-zero (check=True
\* raises CalledProcessError) with or without a partly written file.
SplitOutcomes == {"written", "empty", "nofile", "failed", "failed_partial"}

\* What _transcribe_with_retry (or get_duration, line 213) does for a part.
PartOutcomes == {"done", "raises"}

\* Lines 103-104: for p in parts: p.unlink(missing_ok=True)
UnlinkParts(disk, parts) == disk \ {parts[k] : k \in 1..Len(parts)}

\* Lines 215-217: every listed part that exists and is not the input file.
UnlinkPartsNotInput(disk, parts) ==
    disk \ {parts[k] : k \in {j \in 1..Len(parts) : parts[j] # InputFile}}

\* Lines 190-193, 75: the input file is at most max_size_mb (no split) or
\* larger, with a duration that makes the while loop run steps times.
InitSplit ==
    /\ Idle
    /\ captured = <<>>
    /\ cap_idx = 0
    /\ mpd_from = 0
    /\ call = NoCall
    /\ loop = NoLoop
    /\ conv = NoConv
    /\ retry = NoRetry
    /\ \E steps \in 0..MaxParts :
          split = [pc |-> "split",
                   steps |-> steps,      \* passes of the while loop (0: no split needed)
                   k |-> 0,              \* passes made
                   parts |-> <<>>,       \* the list parts
                   i |-> 0,              \* parts transcribed
                   disk |-> {InputFile}]   \* the files on disk

\* Lines 77-78: the file is small enough, it is the only part.
NoSplitNeeded ==
    /\ split.pc = "split"
    /\ split.steps = 0
    /\ split' = [split EXCEPT !.pc = "transcribe", !.parts = <<InputFile>>]
    /\ UNCHANGED <<sessionVars, captured, cap_idx, mpd_from, call, loop, conv, retry>>

\* Line 81: ffprobe fails (check=True), get_duration raises out of
\* split_audio and _split_and_transcribe.
ProbeRaises ==
    /\ split.pc = "split"
    /\ split.steps > 0
    /\ split.k = 0
    /\ split' = [split EXCEPT !.pc = "raised"]
    /\ UNCHANGED <<sessionVars, captured, cap_idx, mpd_from, call, loop, conv, retry>>

\* Lines 92-110: one pass of the while loop.
SplitStep(outcome) ==
    /\ split.pc = "split"
    /\ split.k < split.steps
    /\ LET part == Len(split.parts) + 1   \* line 93: the name counts len(parts)
           left == IF outcome \in {"written", "empty", "failed_partial"}
                   THEN split.disk \cup {part} ELSE split.disk
       IN IF outcome \in {"failed", "failed_partial"}
          THEN split' = [split EXCEPT !.pc = "raised",
                                      !.disk = UnlinkParts(left, split.parts)]
          ELSE split' = [split EXCEPT !.k = @ + 1,
                                      !.disk = left,
                                      !.parts = IF outcome = "written" THEN Append(@, part)
                                                ELSE @]
    /\ UNCHANGED <<sessionVars, captured, cap_idx, mpd_from, call, loop, conv, retry>>

\* Lines 112-113, 195-198: the while loop is over, parts is returned.
SplitReturns ==
    /\ split.pc = "split"
    /\ split.steps > 0
    /\ split.k = split.steps
    /\ split' = [split EXCEPT !.pc = "transcribe"]
    /\ UNCHANGED <<sessionVars, captured, cap_idx, mpd_from, call, loop, conv, retry>>

\* Lines 199-217: a part is transcribed, or its transcription raises and
\* the finally clause runs.
TranscribePart(outcome) ==
    /\ split.pc = "transcribe"
    /\ split.i < Len(split.parts)
    /\ IF outcome = "raises"
       THEN split' = [split EXCEPT !.pc = "raised",
                                   !.disk = UnlinkPartsNotInput(@, split.parts)]
       ELSE split' = [split EXCEPT !.i = @ + 1]
    /\ UNCHANGED <<sessionVars, captured, cap_idx, mpd_from, call, loop, conv, retry>>

\* Lines 199, 214-220: the for loop is over, the finally clause runs, the
\* segments are returned.
AllTranscribed ==
    /\ split.pc = "transcribe"
    /\ split.i = Len(split.parts)
    /\ split' = [split EXCEPT !.pc = "returned",
                              !.disk = UnlinkPartsNotInput(@, split.parts)]
    /\ UNCHANGED <<sessionVars, captured, cap_idx, mpd_from, call, loop, conv, retry>>

NextSplit ==
    \/ NoSplitNeeded
    \/ ProbeRaises
    \/ \E outcome \in SplitOutcomes : SplitStep(outcome)
    \/ SplitReturns
    \/ \E outcome \in PartOutcomes : TranscribePart(outcome)
    \/ AllTranscribed

SpecSplit == InitSplit /\ [][NextSplit]_vars

----------------------------------------------------------------------------
\* Properties

Segs == DOMAIN st

\* The chunk the output holds for the segment at timeline position i.
Chunk(i) == [kind |-> "media", time |-> audio_track.segment_times[i]]

\* A fetch of position i ended with a decrypted 200 response.
Fetched(i) == st[i] = "done" /\ last[i] = "ok"

\* All three attempts of position i failed.
Unavailable(i) == st[i] = "done" /\ last[i] # "ok"

\* The results of position i went through the write loop.
Flushed(i) == i <= batch_start

InOut(c) == \E p \in 1..Len(out) : out[p] = c

Occurrences(c) == Cardinality({p \in 1..Len(out) : out[p] = c})

RECURSIVE InOrder(_)
\* The in-order concatenation of the plaintexts of the fetched segments among
\* the first k timeline positions.
InOrder(k) ==
    IF k = 0 THEN <<>>
    ELSE InOrder(k - 1) \o (IF last[k] = "ok" THEN <<Chunk(k)>> ELSE <<>>)

\* C1: whatever the completion order of the fetches, the sink holds the init
\* plaintext once and first, then the plaintext of every fetched segment of the
\* batches written so far, once each, in ascending start-time order.
C1_OrderedOutput ==
    temp # "absent" =>
        /\ out = init_data \o InOrder(Min(batch_start, n_segments))
        /\ \A p, q \in 2..Len(out) : p < q => out[p].time < out[q].time
        /\ \A i \in Segs : Occurrences(Chunk(i)) <= 1

\* C1 witness: two batches were written, fetches of a batch returned out of
\* timeline order, and the sink holds segments of both batches.
C1_Witness ==
    /\ temp = "closed"
    /\ outOfOrder
    /\ nBatches >= 2
    /\ Len(out) >= 4
    /\ \E i, j \in Segs : i < j /\ batchNo[i] = batchNo[j] /\ reqs[i] > reqs[j]
                          /\ InOut(Chunk(i)) /\ InOut(Chunk(j))

\* C2 (as stated): at most 3 requests per segment, none after its first 200
\* response, and a segment whose third attempt returns 200 is in the buffer.
C2_NoRequestAfter200 ==
    \A i \in Segs :
        /\ reqs[i] <= 3
        /\ st[i] \in {"inflight", "sleeping"} =>
               last[i] \notin {"ok", "baddecrypt"}
        /\ (st[i] = "done" /\ reqs[i] = 3 /\ last[i] \in {"ok", "baddecrypt"}) =>
               ~results[i].none

\* C2 (amended): at most 3 requests per segment, none after its first 200
\* response whose body decrypts; a segment whose first two attempts fail and
\* whose third returns 200 with a body that decrypts is returned by the fetch
\* and, once its batch is written, is in the buffer.
C2_RetryPolicy ==
    \A i \in Segs :
        /\ reqs[i] <= 3
        /\ st[i] \in {"inflight", "sleeping"} => last[i] # "ok"
        /\ (st[i] = "done" /\ last[i] = "ok") =>
               /\ ~results[i].none
               /\ results[i].data = <<Chunk(i)>>
        /\ (Flushed(i) /\ last[i] = "ok") => InOut(Chunk(i))

\* C2 witness: a segment succeeded on its third request and is in the buffer.
C2_Witness ==
    \E i \in Segs : reqs[i] = 3 /\ last[i] = "ok" /\ Flushed(i) /\ InOut(Chunk(i))

\* C3: a segment whose 3 attempts all failed does not abort the session;
\* when the sink is closed every segment was requested, every fetched segment
\* is in the sink, and the sink holds nothing else (no filler) besides init.
C3_UnavailableSkipped ==
    /\ (\E i \in Segs : Unavailable(i)) => (pc # "raised" /\ result # "exception")
    /\ \A i \in Segs : Unavailable(i) => (reqs[i] = 3 /\ results[i].none)
    /\ temp \in {"closed", "unlinked"} =>
           /\ \A j \in Segs : reqs[j] >= 1 /\ st[j] = "done"
           /\ \A j \in Segs : (last[j] = "ok") <=> InOut(Chunk(j))
           /\ Len(out) = 1 + Cardinality({j \in Segs : last[j] = "ok"})

\* C3 witness: the sink is closed; a segment is unavailable while a later one
\* of its batch and one of a later batch were fetched and written.
C3_Witness ==
    /\ temp = "closed"
    /\ \E i, j, k \in Segs :
          /\ Unavailable(i) /\ ~InOut(Chunk(i))
          /\ i < j /\ batchNo[j] = batchNo[i] /\ InOut(Chunk(j))
          /\ batchNo[k] > batchNo[i] /\ InOut(Chunk(k))

InFlight == {i \in Segs : st[i] = "inflight"}

\* C4: the number of segment requests in flight never exceeds the permit
\* count of the semaphore, whatever the batch size and the interleaving.
C4_BoundedInFlight ==
    /\ Cardinality(InFlight) <= MAX_CONCURRENT
    /\ Cardinality(InFlight) + Cardinality({i \in Segs : st[i] = "sleeping"})
           = MAX_CONCURRENT - sem

\* C4 witness: every permit is taken by a request in flight, one of them a
\* retry, while another fetch of the batch waits for a permit.
C4_Witness ==
    /\ Cardinality(InFlight) = MAX_CONCURRENT
    /\ \E i \in InFlight : attempt[i] > 0
    /\ \E j \in Segs : st[j] = "waiting"

\* C5: batches hold at most batch_size timestamps, every timestamp is taken
\* by exactly one batch, batches follow the timeline, and no fetch of a batch
\* exists before every fetch of the earlier batches has returned and their
\* results have been written.
C5_BatchesSequential ==
    /\ \A b \in 1..nBatches : Cardinality({i \in Segs : batchNo[i] = b}) <= batch_size
    /\ \A i \in Segs : batched[i] <= 1
    /\ temp \in {"closed", "unlinked"} => \A i \in Segs : batched[i] = 1
    /\ \A i, j \in Segs :
          (i < j /\ batchNo[j] # 0) => (batchNo[i] # 0 /\ batchNo[i] <= batchNo[j])
    /\ \A i, j \in Segs :
          (batchNo[i] # 0 /\ batchNo[i] < batchNo[j] /\ st[j] # "new") =>
              /\ st[i] = "done"
              /\ progress >= i
              /\ (last[i] = "ok" => InOut(Chunk(i)))

\* C5 witness: a second batch has a request in flight after a full first batch.
C5_Witness ==
    /\ nBatches = 2
    /\ Cardinality({i \in Segs : batchNo[i] = 1}) = batch_size
    /\ \E j \in Segs : batchNo[j] = 2 /\ reqs[j] > 0 /\ st[j] = "inflight"

\* A segment request was issued or the output file created.
SegmentPhaseEntered == temp # "absent" \/ out # <<>> \/ \E i \in Segs : reqs[i] > 0

\* Parsing, track selection, key fetch or init fetch failed.
FatalFailure ==
    \/ ParseRaises(manifest)
    \/ \A i \in 1..Len(manifest.adapts) : manifest.adapts[i].contentType # "audio"
    \/ keyResp \in {"non200", "error"}
    \/ initResp \in {"non200", "error", "baddecrypt"}

\* C6: a failure of parsing, track selection, key fetch or init fetch ends the
\* session with no segment request issued and no output created; a segment
\* request is issued only after both the key and the init segment were fetched.
C6_FatalBeforeSegments ==
    /\ SegmentPhaseEntered => (keyResp = "ok" /\ initResp = "ok")
    /\ (FatalFailure /\ pc # "parse") =>
           /\ pc \in {"done", "raised"}
           /\ result \in {"false", "exception"}
           /\ ~SegmentPhaseEntered

\* C6 witness: the key was fetched, the init fetch failed, the session ended.
C6_Witness ==
    keyResp = "ok" /\ initResp = "non200" /\ pc = "done" /\ ~SegmentPhaseEntered

\* C7: at most one key GET is issued, exactly one once the track is selected;
\* a non-200 or a transport error of it ends the session with a failure result
\* and no init or segment request follows.
C7_KeyFetchedOnce ==
    /\ keyReqs <= 1
    /\ pc \notin {"parse", "raised"} /\ ~audio_track.is_none => keyReqs = 1
    /\ keyResp \in {"non200", "error"} =>
           /\ pc = "done"
           /\ result = "false"
           /\ initReqs = 0
           /\ \A i \in Segs : reqs[i] = 0

\* C7 witness: the one key GET answered non-200 and the session ended.
C7_Witness ==
    keyReqs = 1 /\ keyResp = "non200" /\ pc = "done" /\ result = "false"

\* C8: the init segment is requested once, and a transport error or a non-200
\* answer of it ends the session with a failure result, as for the key, with
\* no segment request and no output.
C8_InitFailureReturnsFalse ==
    /\ initReqs <= 1
    /\ initResp \in {"non200", "error"} =>
           /\ pc = "done"
           /\ result = "false"
           /\ ~SegmentPhaseEntered

\* C9: on completion the number of unavailable segments surfaced to the caller
\* (the segments the summary does not report as done) equals the number of
\* timestamps minus the number of segments written.
C9_UnavailableCountSurfaced ==
    (pc = "done" /\ result = "true") =>
        /\ n_segments - progress = Cardinality({i \in Segs : Unavailable(i)})
        /\ n_segments - progress = n_segments - Cardinality({i \in Segs : Fetched(i)})

\* C10: a retry of a segment is issued only after the 1 second wait, after a
\* transport error as after a non-200 response.
C10_WaitBeforeRetry ==
    [][\A i \in DOMAIN reqs :
          (i \in DOMAIN reqs' /\ reqs[i] >= 1 /\ reqs'[i] > reqs[i]) => st[i] = "sleeping"]_vars

ExpandDone == call.fn = "expand" /\ call.done

\* Every entry has d > 0 and r >= 0.
ValidTimeline(tl) == \A e \in 1..Len(tl) : tl[e][1] > 0 /\ tl[e][2] >= 0

RECURSIVE CountThrough(_, _)
\* Number of timestamps the first e entries stand for: the sum of r + 1.
CountThrough(tl, e) == IF e = 0 THEN 0 ELSE CountThrough(tl, e - 1) + tl[e][2] + 1

\* The entry the k-th timestamp comes from.
EntryOf(tl, k) ==
    CHOOSE e \in 1..Len(tl) : CountThrough(tl, e - 1) < k /\ k <= CountThrough(tl, e)

\* C11: for entries with d > 0 and r >= 0 the expanded sequence starts at 0,
\* is non-decreasing, has length sum of r + 1, and each element exceeds its
\* predecessor by the duration of the entry that produced the predecessor.
C11_TimelineExpansion ==
    (ExpandDone /\ ValidTimeline(call.arg)) =>
        LET tl == call.arg
            ts == call.ret
        IN /\ ~call.raised
           /\ Len(ts) = CountThrough(tl, Len(tl))
           /\ (ts # <<>> => ts[1] = 0)
           /\ \A k \in 1..(Len(ts) - 1) :
                 /\ ts[k] <= ts[k + 1]
                 /\ ts[k + 1] = ts[k] + tl[EntryOf(tl, k)][1]

\* C11 witness: two entries of different durations, the first repeated, expanded.
C11_Witness ==
    /\ ExpandDone
    /\ ValidTimeline(call.arg)
    /\ Len(call.arg) = 2
    /\ call.arg[1][2] = 2
    /\ call.arg[1][1] # call.arg[2][1]
    /\ Len(call.ret) >= 4

\* C12: a timeline entry with a negative repeat count or a zero duration is
\* rejected (DocumentStructureError): no schedule is produced from it.
C12_InvalidEntryRejected ==
    (ExpandDone /\ \E e \in 1..Len(call.arg) : call.arg[e][1] = 0 \/ call.arg[e][2] < 0) =>
        call.raised

SelectDone == call.fn = "select" /\ call.done

AudioAt(adapts) == {i \in 1..Len(adapts) : adapts[i].contentType = "audio"}

OriginalAt(adapts) == {i \in AudioAt(adapts) : adapts[i].label = "OriginalAudio"}

\* C13: with an audio set labelled OriginalAudio present, the selected track
\* is such a set, wherever it stands; otherwise it is the first audio set;
\* with no audio set no track is selected; a non-audio set is never selected.
C13_TrackSelection ==
    SelectDone =>
        LET adapts == call.arg
            track == call.ret
        IN /\ OriginalAt(adapts) # {} =>
                 /\ ~track.is_none
                 /\ track.rep_id \in OriginalAt(adapts)
                 /\ track.label = "OriginalAudio"
           /\ (OriginalAt(adapts) = {} /\ AudioAt(adapts) # {}) =>
                 /\ ~track.is_none
                 /\ track.rep_id \in AudioAt(adapts)
                 /\ \A i \in AudioAt(adapts) : track.rep_id <= i
           /\ AudioAt(adapts) = {} => track.is_none
           /\ ~track.is_none => track.rep_id \in AudioAt(adapts)

\* C13 witness: a generic audio set first, a video set, then the
\* OriginalAudio set, which is the one selected.
C13_Witness ==
    /\ SelectDone
    /\ Len(call.arg) = 3
    /\ call.arg[1].contentType = "audio" /\ call.arg[1].label = "audio"
    /\ call.arg[2].contentType = "video"
    /\ call.arg[3].contentType = "audio" /\ call.arg[3].label = "OriginalAudio"
    /\ call.ret.rep_id = 3

UnpadDone == call.fn = "unpad" /\ call.done

\* The last p bytes of res exist and all equal p, p the last byte, in 1..16.
WellPadded(res) ==
    /\ res # <<>>
    /\ res[Len(res)] \in 1..16
    /\ res[Len(res)] <= Len(res)
    /\ \A j \in (Len(res) - res[Len(res)] + 1)..Len(res) : res[j] = res[Len(res)]

\* C14: the unpadding removes exactly the last p bytes when the last byte p
\* is in 1..16 and the last p bytes all equal p, and returns the sequence as
\* it is otherwise; an empty sequence stays empty.
C14_Unpadding ==
    UnpadDone =>
        LET res == call.arg IN
        /\ ~call.raised
        /\ WellPadded(res) => call.ret = SubSeq(res, 1, Len(res) - res[Len(res)])
        /\ ~WellPadded(res) => call.ret = res
        /\ res = <<>> => call.ret = <<>>

\* C14 witness: the last byte is a padding length but the bytes before it
\* differ, and the sequence came back whole.
C14_Witness ==
    /\ UnpadDone
    /\ Len(call.arg) = 2 * BLOCK
    /\ call.arg[Len(call.arg)] = 2
    /\ call.arg[Len(call.arg) - 1] # 2
    /\ call.ret = call.arg

DecryptDone == call.fn = "decrypt" /\ call.done

\* C15: a plaintext PKCS7-padded and CBC-encrypted under the fixed 16-byte
\* key and IV comes back from _decrypt unchanged.
C15_RoundTrip ==
    (DecryptDone /\ call.arg.key = KeyOfLen(BLOCK) /\ call.arg.iv = TestIV
                 /\ call.arg.data = CbcEncrypt(Pkcs7Pad(call.arg.plain), call.arg.key, call.arg.iv)) =>
        (~call.raised /\ call.ret = call.arg.plain)

\* C15 witness: a plaintext of one whole block that ends in what looks like
\* two bytes of padding made the round trip.
C15_Witness ==
    /\ DecryptDone
    /\ ~call.raised
    /\ Len(call.arg.plain) = BLOCK
    /\ call.arg.plain[BLOCK] = 2 /\ call.arg.plain[BLOCK - 1] = 2
    /\ Len(call.arg.data) = 2 * BLOCK
    /\ call.ret = call.arg.plain

\* C16: a key that is not exactly 16 bytes long is rejected by the first
\* decryption; no plaintext is produced under a key of any other length.
C16_KeyLengthChecked ==
    (DecryptDone /\ Len(call.arg.key) # 16) => call.raised

IVDone == call.fn = "iv" /\ call.done

\* The hex digits of an IV attribute, without its 0x prefix.
IVDigits(attr) ==
    IF Len(attr) >= 2 /\ attr[1] = "0" /\ attr[2] = "x" THEN SubSeq(attr, 3, Len(attr)) ELSE attr

\* C17: the resolved IV is always exactly 16 bytes: the hex-decoded IV
\* attribute when present, 16 zero bytes when the CryptoPeriod has no IV
\* attribute and when there is no encryption descriptor at all.
C17_IVSixteenBytes ==
    IVDone =>
        /\ ~call.raised
        /\ Len(call.ret) = 16
        /\ (call.arg.present /\ call.arg.has_iv) =>
               \A j \in 1..16 :
                   call.ret[j] = 16 * HexVal(IVDigits(call.arg.iv_attr)[2 * j - 1])
                                 + HexVal(IVDigits(call.arg.iv_attr)[2 * j])
        /\ ~(call.arg.present /\ call.arg.has_iv) => call.ret = Chars(0, 16)

\* The document is not XML or lacks a required element: Period, an audio
\* AdaptationSet, or the SegmentTemplate/Representation/SegmentTimeline of one.
StructureInvalid(m) ==
    \/ ~m.xml_ok
    \/ ~m.has_period
    \/ \A i \in 1..Len(m.adapts) : m.adapts[i].contentType # "audio"
    \/ \E i \in 1..Len(m.adapts) :
          m.adapts[i].contentType = "audio" /\ ~m.adapts[i].complete

\* C18: a manifest that is malformed XML or lacks a required element makes
\* the download fail before any key, init or segment request is issued, and
\* the session ends with a failure result (the failure stays inside it).
C18_StructureErrorConfined ==
    (StructureInvalid(manifest) /\ pc \in {"raised", "done"}) =>
        /\ result = "false"
        /\ keyReqs = 0
        /\ initReqs = 0
        /\ \A i \in DOMAIN reqs : reqs[i] = 0

\* The candidate at position j passed the check: its GET returned 200 and
\* the marker lies wholly inside the first 500 characters of its text.
Passes(j) ==
    /\ captured[j].outcome = "ok"
    /\ \E k \in 0..(500 - 4) :
          /\ k + 4 <= Len(captured[j].text)
          /\ \A c \in 1..4 : captured[j].text[k + c] = MARKER[c]

\* The parser has been given a document.
ParseAttempted ==
    \/ pc \notin {"idle", "capture", "done"}
    \/ pc = "done" /\ (result # "false" \/ keyReqs > 0)

\* C19: the document handed to the parser is the first captured candidate,
\* in capture order, whose GET returned 200 and whose first 500 characters
\* hold the marker; when no candidate passes the session fails with no parse
\* attempt and no key, init or segment request.
C19_ManifestCheck ==
    /\ (mpd_from # 0) =>
           /\ Passes(mpd_from)
           /\ \A j \in 1..(mpd_from - 1) : ~Passes(j)
           /\ manifest = captured[mpd_from].doc
    /\ ParseAttempted => mpd_from # 0
    /\ (pc = "capture") => \A j \in 1..cap_idx : ~Passes(j)
    /\ (pc \notin {"capture", "idle"} /\ \A j \in 1..Len(captured) : ~Passes(j)) =>
           /\ pc = "done"
           /\ result = "false"
           /\ mpd_from = 0
           /\ keyReqs = 0
           /\ initReqs = 0
           /\ reqs = <<>>

\* A candidate carrying the marker just outside the window was passed over,
\* a later one was accepted and its session ran to a finished file.
C19_Witness ==
    /\ mpd_from = 2
    /\ captured[1].outcome = "ok"
    /\ IsManifestAnywhere(captured[1].text)
    /\ result = "true"

\* The fetches holding a permit: those inside "async with sem", at a request
\* or in a retry wait.
Holders == {i \in Segs : st[i] \in {"inflight", "sleeping"}}

HeldPermits == MAX_CONCURRENT - sem

\* C20: a fetch takes one permit before its first request, keeps it across
\* its attempts and retry waits and gives it back exactly once however it
\* resolves: the held permits are exactly those of the unresolved fetches that
\* have started, their number stays between 0 and the permit count, and it is
\* 0 at every batch join and once the segment phase is over.
C20_PermitDiscipline ==
    /\ HeldPermits >= 0
    /\ HeldPermits <= MAX_CONCURRENT
    /\ HeldPermits = Cardinality(Holders)
    /\ \A i \in Segs : (i \notin Holders /\ st[i] # "done") => reqs[i] = 0
    /\ (pc # "gather") => HeldPermits = 0

\* C20 witness: a batch has been joined with every permit back, after one
\* fetch succeeded, one ran out of attempts on errors (with retry waits) and
\* one ran out of attempts on non-200 answers.
C20_Witness ==
    /\ pc = "batch"
    /\ nBatches >= 1
    /\ HeldPermits = 0
    /\ \E i, j, k \in Segs :
          /\ st[i] = "done" /\ last[i] = "ok"
          /\ st[j] = "done" /\ last[j] = "error" /\ reqs[j] = MAX_ATTEMPTS
          /\ st[k] = "done" /\ last[k] = "non200" /\ reqs[k] = MAX_ATTEMPTS

\* C21: if every issued request eventually returns a response or an error,
\* the segment phase terminates: no fetch makes more than 3 requests, and
\* once the output file is open it is eventually closed with every fetch
\* resolved and every batch joined and written, whatever the mix of
\* successes and failures.
C21_SegmentPhaseTerminates ==
    /\ [](\A i \in Segs : reqs[i] <= 3)
    /\ (temp = "open") ~> (temp = "closed" /\ progress = n_segments
                           /\ \A i \in Segs : st[i] = "done")

\* C21 witness: the file was closed after two batches in which every
\* segment failed all its attempts.
C21_Witness ==
    /\ temp = "closed"
    /\ nBatches = 2
    /\ \A i \in Segs : st[i] = "done" /\ results[i] = None /\ reqs[i] = MAX_ATTEMPTS

\* The step in which the attempt of position i in flight ends with an
\* exception of the given kind.
AttemptRaises(i, kind) ==
    st[i] = "inflight" /\ st'[i] # "inflight" /\ last'[i] = kind

\* What an attempt of position i ending with an exception does: before the
\* third request the fetch keeps its permit and waits, after the third it
\* returns None and gives the permit back; nothing else moves.
HandledAsFailedAttempt(i) ==
    /\ reqs[i] < 3 => (st'[i] = "sleeping" /\ sem' = sem)
    /\ reqs[i] >= 3 => (st'[i] = "done" /\ results'[i] = None /\ sem' = sem + 1)
    /\ reqs'[i] = reqs[i] /\ attempt'[i] = attempt[i]
    /\ pc' = pc /\ result' = result /\ out' = out /\ temp' = temp
    /\ \A j \in Segs \ {i} :
          /\ st'[j] = st[j] /\ last'[j] = last[j] /\ results'[j] = results[j]
          /\ reqs'[j] = reqs[j] /\ attempt'[j] = attempt[j]

\* C22: an error raised while decrypting a segment's 200 response is handled
\* exactly like a transport error of that attempt: it uses up one of the 3
\* attempts, the segment is retried after the wait, is unavailable when no
\* attempt decrypts, and neither the session nor another segment is touched.
C22_DecryptErrorIsFailedAttempt ==
    [][\A i \in Segs :
          /\ AttemptRaises(i, "baddecrypt") => HandledAsFailedAttempt(i)
          /\ AttemptRaises(i, "error") => HandledAsFailedAttempt(i)
          /\ (st[i] = "sleeping" /\ st'[i] # "sleeping") =>
                 (st'[i] = "inflight" /\ reqs'[i] = reqs[i] + 1 /\ reqs'[i] <= 3)
          /\ (last[i] = "baddecrypt" /\ st[i] = "done") => results[i] = None]_vars

\* C22 witness: the file is closed; one segment got three 200 responses that
\* did not decrypt and is missing, another of its batch is in the file.
C22_Witness ==
    /\ temp = "closed"
    /\ \E i, j \in Segs :
          /\ last[i] = "baddecrypt" /\ reqs[i] = 3 /\ results[i] = None /\ ~InOut(Chunk(i))
          /\ batchNo[j] = batchNo[i] /\ last[j] = "ok" /\ InOut(Chunk(j))

MainRuns == loop.pc # "none"

\* C23: main calls download_audio on every URL of the list exactly once, in
\* list order and one at a time; whatever an earlier session did, fatal
\* manifest, key and init-segment errors included, every later URL is still
\* attempted, and ok_count ends as the number of sessions that returned success.
C23_EveryUrlAttempted ==
    MainRuns =>
        /\ Len(loop.attempted) <= Len(loop.urls)
        /\ loop.attempted = SubSeq(loop.urls, 1, Len(loop.attempted))
        /\ loop.pc = "session" => Len(loop.attempted) = Len(loop.returned) + 1
        /\ loop.pc \notin {"loop", "session"} =>
               /\ loop.attempted = loop.urls
               /\ Len(loop.returned) = Len(loop.urls)
               /\ loop.ok_count = Cardinality({k \in 1..Len(loop.returned) : loop.returned[k]})

\* main is about to call download_audio on a URL whose destination file
\* exists with more than 10,000 bytes.
AtExistingFile ==
    /\ loop.pc = "loop"
    /\ loop.i < Len(loop.urls)
    /\ loop.urls[loop.i + 1] \in DOMAIN loop.dest
    /\ loop.dest[loop.urls[loop.i + 1]] > 10000

C25_DeleteOnlyConverted ==
    (conv.pc # "none") =>
        /\ \A f \in 1..conv.n :
              /\ ~conv.flac[f] => (conv.delete_flac /\ f <= conv.i /\ conv.success[f])
              /\ (f <= conv.i /\ ~conv.success[f]) =>
                     (conv.mp3[f] = "absent" /\ conv.flac[f] /\ conv.runs[f] = 1)
              /\ conv.mp3_before[f] = "full" => (conv.runs[f] = 0 /\ conv.mp3[f] = "full")
              /\ conv.runs[f] <= 1
        /\ conv.pc = "finished" =>
               /\ Len(conv.success) = conv.n
               /\ conv.ok_count = Cardinality({f \in 1..conv.n : conv.success[f]})

\* C25 witness: with --delete, ffmpeg failed on the first file, whose FLAC
\* is kept without MP3, and the second was converted and its FLAC deleted.
C25_Witness ==
    /\ conv.pc = "finished"
    /\ conv.n = 2
    /\ conv.delete_flac
    /\ conv.success = <<FALSE, TRUE>>
    /\ conv.flac = <<TRUE, FALSE>>
    /\ conv.mp3 = <<"absent", "full">>
    /\ conv.runs = <<1, 1>>

Calls == Len(retry.outcomes)

\* C26: at most 3 API calls for a part; a further call is made only after a
\* retryable error, 2 seconds after the first failure and 4 seconds after
\* the second; a non-retryable error and a failure of the third call are
\* re-raised with no further call, and the segments of the first successful
\* call are returned.
C26_RetryWithBackoff ==
    (retry.pc # "none") =>
        /\ Calls <= 3
        /\ \A k \in 1..(Calls - 1) :
              ~retry.outcomes[k].ok /\ IsRetryable(retry.outcomes[k].exc)
        /\ retry.sleeps = SubSeq(<<2, 4>>, 1, Len(retry.sleeps))
        /\ Len(retry.sleeps) = (IF retry.pc \in {"sleep", "call"} THEN Calls ELSE Calls - 1)
        /\ retry.pc = "call" => Calls = retry.attempt - 1
        /\ retry.pc = "sleep" =>
               /\ Calls < 3
               /\ ~retry.outcomes[Calls].ok /\ IsRetryable(retry.outcomes[Calls].exc)
        /\ retry.pc = "raised" =>
               /\ ~retry.outcomes[Calls].ok
               /\ Calls = 3 \/ ~IsRetryable(retry.outcomes[Calls].exc)
        /\ retry.pc = "returned" =>
               (retry.outcomes[Calls].ok /\ retry.ret = retry.outcomes[Calls].segments)
        /\ retry.pc # "returned" => retry.ret = "none"

\* C26 witness: two retryable failures, waits of 2 and 4 seconds, then the
\* third call failed with a retryable error and was re-raised.
C26_Witness ==
    /\ retry.pc = "raised"
    /\ Calls = 3
    /\ retry.sleeps = <<2, 4>>
    /\ IsRetryable(retry.outcomes[3].exc)
    /\ retry.outcomes[1].exc.cause # <<>>

\* C27: once _split_and_transcribe has returned or raised, on every path,
\* no part file made by the split is left on disk and the input file is
\* still there, also when the input file itself was the only part.
C27_NoPartLeft ==
    (split.pc \in {"returned", "raised"}) => split.disk = {InputFile}

====
